---- MODULE Spec2Model ----
(***************************************************************************)
(* The client information form (components/attractive-form.tsx): the      *)
(* AttractiveForm component's state, its event handlers and the           *)
(* asynchronous onSubmit handler, one action per handler step.            *)
(*                                                                         *)
(* Text is modelled in two ways.  A form field value is the sequence of   *)
(* its characters, so the schema's length and e-mail rules are computed.  *)
(* A message (a toast description, a response body) is a sequence of      *)
(* chunks; the phrases the code searches for are single chunks.           *)
(***************************************************************************)
EXTENDS Integers, Sequences, FiniteSets

\* How many handleSubmit calls may be unfinished at once (the model's bound:
\* a submit event beyond it is not taken).
MaxPending == 2

(***************************************************************************)
(* formSchema                                                              *)
(***************************************************************************)
MinFirstName == 2
MinLastName == 2
MinPhone == 10
MinAddress == 5

Letters == {"a", "b", "c", "d", "e", "t", "A", "l", "B", "o", "H", "f"}
Digits == {"0", "1", "2", "3", "4", "5", "6", "7", "8", "9"}
Alnum == Letters \cup Digits

\* z.string().email(): ^(?!\.)(?!.*\.\.)([A-Z0-9_'+\-\.]*)[A-Z0-9_+-]@
\*                     ([A-Z0-9][A-Z0-9\-]*\.)+[A-Z]{2,}$  (case-insensitive)
IsEmail(s) ==
  LET ats == {i \in 1..Len(s) : s[i] = "@"} IN
  /\ Cardinality(ats) = 1
  /\ LET at == CHOOSE i \in ats : TRUE
         local == SubSeq(s, 1, at - 1)
         dom == SubSeq(s, at + 1, Len(s))
         dots == {i \in 1..Len(dom) : dom[i] = "."}
     IN
     /\ Len(local) >= 1
     /\ local[1] # "."
     /\ local[Len(local)] \in Alnum \cup {"_", "+", "-"}
     /\ \A i \in 1..Len(local) : local[i] \in Alnum \cup {"_", "'", "+", "-", "."}
     /\ \A i \in 1..(Len(s) - 1) : ~(s[i] = "." /\ s[i + 1] = ".")
     /\ dots # {}
     /\ LET last == CHOOSE i \in dots : \A j \in dots : j <= i IN
        /\ Len(dom) - last >= 2
        /\ \A i \in (last + 1)..Len(dom) : dom[i] \in Letters
        /\ dom[1] \in Alnum
        /\ \A i \in 1..last : dom[i] \in Alnum \cup {"-", "."}
        /\ \A i \in dots : i < last => dom[i + 1] \in Alnum

\* Variant: the schema without the e-mail rule (as the earlier form had it).
SchemaNoEmail(data) ==
  {f \in {"firstName", "lastName", "phone", "address"} :
     Len(data[f]) < (CASE f = "firstName" -> MinFirstName
                       [] f = "lastName" -> MinLastName
                       [] f = "phone" -> MinPhone
                       [] OTHER -> MinAddress)}

\* Variant: the phone rule is applied only to a record whose address passes.
formSchema_phoneAfterAddress(data) ==
  {f \in {"firstName", "lastName", "address"} :
     Len(data[f]) < (CASE f = "firstName" -> MinFirstName
                       [] f = "lastName" -> MinLastName
                       [] OTHER -> MinAddress)}
  \cup (IF Len(data.address) >= MinAddress /\ Len(data.phone) < MinPhone
        THEN {"phone"} ELSE {})
  \cup (IF IsEmail(data.email) THEN {} ELSE {"email"})

\* The set of fields whose rule fails (the resolver's errors object).
formSchema(data) ==
  {f \in {"firstName", "lastName", "phone", "address"} :
     Len(data[f]) < (CASE f = "firstName" -> MinFirstName
                       [] f = "lastName" -> MinLastName
                       [] f = "phone" -> MinPhone
                       [] OTHER -> MinAddress)}
  \cup (IF IsEmail(data.email) THEN {} ELSE {"email"})

\* useForm's defaultValues.
defaultValues ==
  [firstName |-> <<>>, lastName |-> <<>>, email |-> <<>>, phone |-> <<>>,
   address |-> <<>>]

\* The order of Object.entries(data).
FieldOrder == <<"firstName", "lastName", "email", "phone", "address">>

(***************************************************************************)
(* The inputs of the model: what the user may type, pick and receive.     *)
(***************************************************************************)
GoodEmail == <<"a", "@", "b", ".", "d", "e">>
BadEmail == <<"a", "@", "b">>
PreFilledEmail == <<"c", "@", "d", ".", "a", "t">>
GoodPhone == <<"0", "1", "2", "3", "4", "5", "6", "7", "8", "9">>
ShortPhone == <<"0", "1", "2", "3", "4", "5", "6", "7", "8">>

\* What the user may have typed into the fields between two other events.
Filled ==
  [firstName |-> <<"A", "l">>, lastName |-> <<"B", "o">>, email |-> GoodEmail,
   phone |-> GoodPhone, address |-> <<"H", "o", "f", " ", "1">>]

FormInputs ==
  {Filled,
   [Filled EXCEPT !.phone = ShortPhone],
   [Filled EXCEPT !.email = BadEmail],
   [Filled EXCEPT !.email = <<>>],
   [defaultValues EXCEPT !.firstName = <<"A">>]}

\* The props a page may pass: the e-mail and the token of the link, and the
\* missing-fields list (the component's default, or the list
\* app/form/form-page-content.tsx passes).
PropsGiven ==
  {[clientEmail |-> <<>>, token |-> "", missingFields |-> <<>>],
   [clientEmail |-> PreFilledEmail, token |-> "tok",
    missingFields |-> <<"firstName", "lastName", "phone", "address">>]}

\* handleFileChange
allowedTypes ==
  {"application/pdf", "application/msword",
   "application/vnd.openxmlformats-officedocument.wordprocessingml.document",
   "text/plain", "image/jpeg", "image/png"}
maxSize == 10 * 1024 * 1024

\* event.target.files: no file (<<>>) or one file.
FileEvents ==
  {<<>>,
   <<[name |-> "scan.png", size |-> maxSize, type |-> "image/png"]>>,
   <<[name |-> "big.pdf", size |-> maxSize + 1, type |-> "application/pdf"]>>,
   <<[name |-> "run.exe", size |-> 10, type |-> "application/x-msdownload"]>>}

(***************************************************************************)
(* Messages.  A message is a sequence of chunks.                          *)
(***************************************************************************)
Includes(s, phrase) == \E i \in 1..Len(s) : s[i] = phrase

TimeoutMsg ==
  <<"Die Verbindung zum Server hat zu lange gedauert. Bitte überprüfen Sie Ihre Internetverbindung und versuchen Sie es erneut.">>
ConnFailMsg ==
  <<"Verbindung zum Server fehlgeschlagen. Bitte stellen Sie sicher, dass der Server läuft.">>
LinkExpiredMsg ==
  <<"Dieser Formular-Link ist abgelaufen. Bitte fordern Sie einen neuen Link an.">>
DefaultErrorMsg == <<"Bitte versuchen Sie es später erneut.">>

\* HTTP statuses the endpoint may answer with; response.ok is 200..299.
Statuses == {200, 204, 400, 401, 404, 422, 500}
ResponseOk(status) == status >= 200 /\ status <= 299
StatusText(status) ==
  CASE status = 200 -> "200" [] status = 204 -> "204" [] status = 400 -> "400"
    [] status = 401 -> "401" [] status = 404 -> "404" [] status = 422 -> "422"
    [] OTHER -> "500"

\* `Server error! Status: ${response.status}`
GenericMsg(status) == <<"Server error! Status: ", StatusText(status)>>

(***************************************************************************)
(* Response bodies.  A body text is an optional leading double quote, a   *)
(* core and an optional trailing double quote.  The core is nothing, a    *)
(* text that is no JSON document, or a JSON document (written compactly,  *)
(* as JSON.stringify writes it, or with extra white space).               *)
(* A JSON document is an object with optional members detail and message, *)
(* or null.  A member is absent, a string, or a non-empty array of        *)
(* objects (FastAPI's validation errors).                                 *)
(***************************************************************************)
Quote == "\""
Absent == [k |-> "absent", s |-> <<>>]
JStr(s) == [k |-> "str", s |-> s]
JList == [k |-> "list", s |-> <<>>]
JObj(d, m) == [t |-> "obj", detail |-> d, message |-> m]
JNull == [t |-> "null", detail |-> Absent, message |-> Absent]

NoCore == [kind |-> "none", s |-> <<>>, doc |-> JNull, spaced |-> FALSE]
TextCore(s) == [kind |-> "text", s |-> s, doc |-> JNull, spaced |-> FALSE]
JsonCore(doc, spaced) == [kind |-> "json", s |-> <<>>, doc |-> doc, spaced |-> spaced]
Body(lead, core, trail) == [lead |-> lead, core |-> core, trail |-> trail]

\* JSON.stringify of a member value and of a document.
MemberText(name, v) ==
  IF v.k = "absent" THEN <<>>
  ELSE IF v.k = "str" THEN <<name, Quote>> \o v.s \o <<Quote>>
  ELSE <<name, "[{}]">>

Stringify(doc) ==
  IF doc.t = "null" THEN <<"null">>
  ELSE <<"{">> \o MemberText("\"detail\":", doc.detail)
       \o (IF doc.detail.k # "absent" /\ doc.message.k # "absent" THEN <<",">> ELSE <<>>)
       \o MemberText("\"message\":", doc.message) \o <<"}">>

CoreText(core) ==
  IF core.kind = "none" THEN <<>>
  ELSE IF core.kind = "text" THEN core.s
  ELSE (IF core.spaced THEN <<" ">> ELSE <<>>) \o Stringify(core.doc)

\* The text response.text() yields.
BodyText(body) ==
  (IF body.lead THEN <<Quote>> ELSE <<>>) \o CoreText(body.core)
  \o (IF body.trail THEN <<Quote>> ELSE <<>>)

\* errorText.replace(/^"|"$/g, ''): one leading and one trailing quote go.
StripQuotes(body) == Body(FALSE, body.core, FALSE)

\* JavaScript truthiness and String(v) of a member value.
Truthy(v) == (v.k = "str" /\ v.s # <<>>) \/ v.k = "list"
JsToString(v) == IF v.k = "str" THEN v.s ELSE <<"[object Object]">>

\* The non-ok branch of onSubmit, from the text read to the Error thrown:
\*   errorData.detail || errorData.message || JSON.stringify(errorData),
\* the raw text when JSON.parse (or the member access on null) throws, and
\* the generic message when the text is empty.
\* Variant: the quotes are not removed before JSON.parse.
ExtractNoStrip(status, body) ==
  IF BodyText(body) = <<>> THEN GenericMsg(status)
  ELSE IF body.lead \/ body.trail \/ body.core.kind # "json" \/ body.core.doc.t = "null"
       THEN BodyText(body)
  ELSE IF Truthy(body.core.doc.detail) THEN JsToString(body.core.doc.detail)
  ELSE IF Truthy(body.core.doc.message) THEN JsToString(body.core.doc.message)
  ELSE Stringify(body.core.doc)

\* Variant: errorData.message || errorData.detail.
ExtractMessageFirst(status, body) ==
  IF BodyText(body) = <<>> THEN GenericMsg(status)
  ELSE IF StripQuotes(body).core.kind # "json" \/ body.core.doc.t = "null"
       THEN BodyText(body)
  ELSE IF Truthy(body.core.doc.message) THEN JsToString(body.core.doc.message)
  ELSE IF Truthy(body.core.doc.detail) THEN JsToString(body.core.doc.detail)
  ELSE Stringify(body.core.doc)

\* The message of the Error thrown at line 173.
ExtractErrorMessage(status, body) ==
  IF BodyText(body) = <<>> THEN GenericMsg(status)
  ELSE IF StripQuotes(body).core.kind # "json" \/ body.core.doc.t = "null"
       THEN BodyText(body)
  ELSE IF Truthy(body.core.doc.detail) THEN JsToString(body.core.doc.detail)
  ELSE IF Truthy(body.core.doc.message) THEN JsToString(body.core.doc.message)
  ELSE Stringify(body.core.doc)

\* The catch block of onSubmit: the description of the error toast.
\* Every error thrown in the try block is an Error instance (the Error thrown
\* at line 173, fetch's TypeError and AbortError, json()'s SyntaxError).
\* Variant: no AbortError branch.
CatchNoAbort(error) ==
  IF Includes(error.message, "Failed to fetch") THEN ConnFailMsg
  ELSE IF Includes(error.message, "Invalid or expired token") THEN LinkExpiredMsg
  ELSE error.message

\* Variant: the token phrase is looked for before the fetch phrase.
CatchMessage_tokenFirst(error) ==
  IF ~error.isError THEN DefaultErrorMsg
  ELSE IF error.name = "AbortError" THEN TimeoutMsg
  ELSE IF Includes(error.message, "Invalid or expired token") THEN LinkExpiredMsg
  ELSE IF Includes(error.message, "Failed to fetch") THEN ConnFailMsg
  ELSE error.message

CatchMessage(error) ==
  IF ~error.isError THEN DefaultErrorMsg
  ELSE IF error.name = "AbortError" THEN TimeoutMsg
  ELSE IF Includes(error.message, "Failed to fetch") THEN ConnFailMsg
  ELSE IF Includes(error.message, "Invalid or expired token") THEN LinkExpiredMsg
  ELSE error.message

Err(name, message) == [isError |-> TRUE, name |-> name, message |-> message]
AbortError == Err("AbortError", <<"The user aborted a request.">>)
\* fetch's rejection when the request cannot reach the endpoint: the text is
\* the browser's.
NetworkErrors ==
  {Err("TypeError", <<"Failed to fetch">>),
   Err("TypeError", <<"NetworkError when attempting to fetch resource.">>)}
\* response.json() on a body that is no JSON.
JsonSyntaxError == Err("SyntaxError", <<"Unexpected end of JSON input">>)

\* The description of the error toast of a non-ok response whose text was read:
\* the Error thrown at line 173, through the catch block.
ServerErrorDescription(status, body) ==
  CatchMessage(Err("Error", ExtractErrorMessage(status, body)))

\* The bodies a non-2xx response may carry.
ErrorBodies ==
  {Body(FALSE, NoCore, FALSE),
   Body(FALSE, TextCore(<<"Internal Server Error">>), FALSE),
   Body(TRUE, TextCore(<<"oops">>), TRUE),
   Body(FALSE, JsonCore(JObj(JStr(<<"token expired">>), Absent), FALSE), FALSE),
   Body(TRUE, JsonCore(JObj(JStr(<<"token expired">>), Absent), FALSE), TRUE),
   Body(FALSE, JsonCore(JObj(JStr(<<"Invalid or expired token">>), Absent), FALSE), FALSE),
   Body(FALSE, JsonCore(JObj(JStr(<<"token expired">>), JStr(<<"bad request">>)), TRUE), FALSE),
   Body(FALSE, JsonCore(JObj(Absent, JStr(<<"bad request">>)), FALSE), FALSE),
   Body(FALSE, JsonCore(JObj(JStr(<<>>), JStr(<<"bad request">>)), FALSE), FALSE),
   Body(FALSE, JsonCore(JObj(JStr(<<>>), Absent), FALSE), FALSE),
   Body(FALSE, JsonCore(JObj(JList, Absent), FALSE), FALSE),
   Body(FALSE, JsonCore(JObj(Absent, Absent), TRUE), FALSE),
   Body(FALSE, JsonCore(JNull, FALSE), FALSE)}


(***************************************************************************)
(* The component's state                                                   *)
(***************************************************************************)
VARIABLES
  clientEmail,      \* props (AttractiveFormProps)
  token,
  missingFields,
  isClient,         \* useState(false)
  effectsPending,   \* the effects that depend on isClient have yet to run
  isEmailPreFilled, \* useState(false)
  isTokenValid,     \* useState<boolean | null>(null): "null", "true", "false"
  isSubmitting,     \* useState(false)
  selectedFile,     \* useState<File | null>(null): <<>> or <<file>>
  form,             \* react-hook-form's field values
  inv,              \* the unfinished handleSubmit(onSubmit) calls
  toast,            \* the toast the last step showed or updated, if any
  navPending,       \* a setTimeout(..., 2000) redirect is pending
  page,             \* "form", or "success" once window.location.href is set
  response,         \* ErrorSpec: a non-ok response (status, body text, readable)
  surfaced,         \* ErrorSpec: the Error it throws and the description shown
  errors,           \* SchemaSpec: the resolver's errors (formState.errors)
  caught            \* CatchSpec: the value thrown in onSubmit's try block

vars ==
  <<clientEmail, token, missingFields, isClient, effectsPending, isEmailPreFilled,
    isTokenValid, isSubmitting, selectedFile, form, inv, toast, navPending, page,
    response, surfaced, errors, caught>>

props == <<clientEmail, token, missingFields>>
mount == <<isClient, effectsPending, isEmailPreFilled, isTokenValid>>
errorCase == <<response, surfaced, errors, caught>>

Slots == 1..MaxPending

NoToast == [kind |-> "none", title |-> "", description |-> <<>>]
Toast(kind, title, description) ==
  [kind |-> kind, title |-> title, description |-> description]

NoResponse == [status |-> 0, body |-> Body(FALSE, NoCore, FALSE), readable |-> TRUE]
NoSurfaced == [shown |-> FALSE, thrown |-> <<>>, description |-> <<>>]

(***************************************************************************)
(* A handleSubmit call, from the submit event to the end of onSubmit:      *)
(*   pc         "none" (no call), "validating" (the resolver's answer is   *)
(*              awaited), "fetching", "text" (response.text() is awaited), *)
(*              "json" (response.json() is awaited), "stale" (ended, its   *)
(*              deadline timer still armed)                                *)
(*   valid, data  the resolver's answer: no errors, and the parsed values  *)
(*   file, tokenInvalid  of onSubmit's closure: selectedFile, and          *)
(*              isTokenValid === false                                     *)
(*   formData   the body of the POST                                       *)
(*   timer      the 30 s deadline timer is armed                           *)
(*   status     the response's status                                      *)
(*   jsonBody   the body of an ok response arrives and is a JSON document  *)
(***************************************************************************)
NoInv ==
  [pc |-> "none", valid |-> FALSE, data |-> defaultValues, file |-> <<>>,
   tokenInvalid |-> FALSE, formData |-> <<>>, timer |-> FALSE, status |-> 0,
   jsonBody |-> FALSE]

\* Nothing has been thrown.
NoCaught == [thrown |-> FALSE, handled |-> FALSE, error |-> Err("", <<>>)]

\* formState.errors before the resolver has answered.
NoErrors == [resolved |-> FALSE, fields |-> {}]

InFlight(i) == inv[i].pc \in {"fetching", "text", "json"}

\* isTokenValid after useState<boolean | null>(null), and the values of its type.
InitialTokenValid == {"null"}
TokenValidType == {"null", "true", "false"}

InitWith(given, tokenStates) ==
  /\ \E p \in given :
       /\ clientEmail = p.clientEmail
       /\ token = p.token
       /\ missingFields = p.missingFields
  /\ isClient = FALSE
  /\ effectsPending = FALSE
  /\ isEmailPreFilled = FALSE
  /\ isTokenValid \in tokenStates
  /\ isSubmitting = FALSE
  /\ selectedFile = <<>>
  /\ form = defaultValues
  /\ inv = [i \in Slots |-> NoInv]
  /\ toast = NoToast
  /\ navPending = FALSE
  /\ page = "form"
  /\ errors = NoErrors
  /\ caught = NoCaught

Init ==
  /\ InitWith(PropsGiven, InitialTokenValid)
  /\ response = NoResponse
  /\ surfaced = NoSurfaced

(***************************************************************************)
(* Rendering                                                               *)
(***************************************************************************)
\* Boolean(isSubmitting || (token && isTokenValid === false))
isSubmitDisabled == isSubmitting \/ (token # "" /\ isTokenValid = "false")

\* The form is rendered unless the link-check or invalid-link view is, and
\* takes the user's events once the effects of the last commit have run (React
\* runs them before it handles the next event).
FormRendered ==
  /\ page = "form"
  /\ isClient
  /\ ~effectsPending
  /\ ~(isClient /\ token # "" /\ isTokenValid = "null")
  /\ ~(isClient /\ token # "" /\ isTokenValid = "false")

(***************************************************************************)
(* Effects                                                                 *)
(***************************************************************************)
\* useEffect(() => { setIsClient(true) }, [])
MountEffect ==
  /\ page = "form"
  /\ ~isClient
  /\ isClient' = TRUE
  /\ effectsPending' = TRUE
  /\ toast' = NoToast
  /\ UNCHANGED <<props, isEmailPreFilled, isTokenValid, isSubmitting, selectedFile,
                 form, inv, navPending, page, errorCase>>

\* Variant: the token effect finds a supplied token invalid.
ClientEffects_rejectsToken ==
  /\ page = "form"
  /\ effectsPending
  /\ effectsPending' = FALSE
  /\ IF clientEmail # <<>>
     THEN /\ form' = [form EXCEPT !.email = clientEmail]
          /\ isEmailPreFilled' = TRUE
     ELSE UNCHANGED <<form, isEmailPreFilled>>
  /\ isTokenValid' = IF token # "" THEN "false" ELSE "true"
  /\ toast' = NoToast
  /\ UNCHANGED <<props, isClient, isSubmitting, selectedFile, inv, navPending, page,
                 errorCase>>

\* The two effects that re-run when isClient has become true.
ClientEffects ==
  /\ page = "form"
  /\ effectsPending
  /\ effectsPending' = FALSE
  /\ IF clientEmail # <<>>
     THEN /\ form' = [form EXCEPT !.email = clientEmail]
          /\ isEmailPreFilled' = TRUE
     ELSE UNCHANGED <<form, isEmailPreFilled>>
  /\ isTokenValid' = "true"
  /\ toast' = NoToast
  /\ UNCHANGED <<props, isClient, isSubmitting, selectedFile, inv, navPending, page,
                 errorCase>>

(***************************************************************************)
(* The user's handlers                                                     *)
(***************************************************************************)
\* Variant: the inputs are not disabled while isSubmitting.
UpdateFields_notDisabled(values) ==
  /\ FormRendered
  /\ form' = IF isEmailPreFilled THEN [values EXCEPT !.email = form.email] ELSE values
  /\ toast' = NoToast
  /\ UNCHANGED <<props, mount, isSubmitting, selectedFile, inv, navPending, page,
                 errorCase>>

\* Variant: the e-mail input stays editable when pre-filled.
UpdateFields_emailEditable(values) ==
  /\ FormRendered
  /\ ~isSubmitting
  /\ form' = values
  /\ toast' = NoToast
  /\ UNCHANGED <<props, mount, isSubmitting, selectedFile, inv, navPending, page,
                 errorCase>>

\* <Input {...field}> changes: every input is disabled while isSubmitting and
\* the e-mail input is readOnly once pre-filled.
UpdateFields(values) ==
  /\ FormRendered
  /\ ~isSubmitting
  /\ form' = IF isEmailPreFilled THEN [values EXCEPT !.email = form.email] ELSE values
  /\ toast' = NoToast
  /\ UNCHANGED <<props, mount, isSubmitting, selectedFile, inv, navPending, page,
                 errorCase>>

\* Variant: the size is not checked.
handleFileChange_anySize(files) ==
  /\ IF files = <<>>
     THEN /\ toast' = NoToast
          /\ UNCHANGED selectedFile
     ELSE LET file == files[1] IN
          IF file.type \notin allowedTypes
          THEN /\ toast' = Toast("error", "Ungültiger Dateityp",
                   <<"Bitte laden Sie nur PDF, DOC, DOCX, TXT, JPG oder PNG Dateien hoch.">>)
               /\ UNCHANGED selectedFile
          ELSE /\ selectedFile' = <<file>>
               /\ toast' = Toast("info", "Datei ausgewählt",
                   <<file.name, " wurde zum Hochladen ausgewählt.">>)

\* Variant: a rejected file clears the selection.
handleFileChange_clearsOnReject(files) ==
  /\ IF files = <<>>
     THEN /\ toast' = NoToast
          /\ UNCHANGED selectedFile
     ELSE LET file == files[1] IN
          IF file.type \notin allowedTypes
          THEN /\ toast' = Toast("error", "Ungültiger Dateityp",
                   <<"Bitte laden Sie nur PDF, DOC, DOCX, TXT, JPG oder PNG Dateien hoch.">>)
               /\ selectedFile' = <<>>
          ELSE IF file.size > maxSize
          THEN /\ toast' = Toast("error", "Datei zu groß",
                   <<"Bitte laden Sie Dateien kleiner als 10MB hoch.">>)
               /\ selectedFile' = <<>>
          ELSE /\ selectedFile' = <<file>>
               /\ toast' = Toast("info", "Datei ausgewählt",
                   <<file.name, " wurde zum Hochladen ausgewählt.">>)

\* Variant: an event without a file clears the selection.
handleFileChange_clearsOnEmpty(files) ==
  /\ IF files = <<>>
     THEN /\ toast' = NoToast
          /\ selectedFile' = <<>>
     ELSE LET file == files[1] IN
          IF file.type \notin allowedTypes
          THEN /\ toast' = Toast("error", "Ungültiger Dateityp",
                   <<"Bitte laden Sie nur PDF, DOC, DOCX, TXT, JPG oder PNG Dateien hoch.">>)
               /\ UNCHANGED selectedFile
          ELSE IF file.size > maxSize
          THEN /\ toast' = Toast("error", "Datei zu groß",
                   <<"Bitte laden Sie Dateien kleiner als 10MB hoch.">>)
               /\ UNCHANGED selectedFile
          ELSE /\ selectedFile' = <<file>>
               /\ toast' = Toast("info", "Datei ausgewählt",
                   <<file.name, " wurde zum Hochladen ausgewählt.">>)

\* Variant: a file of exactly maxSize is rejected.
handleFileChange_belowMaxSize(files) ==
  /\ IF files = <<>>
     THEN /\ toast' = NoToast
          /\ UNCHANGED selectedFile
     ELSE LET file == files[1] IN
          IF file.type \notin allowedTypes
          THEN /\ toast' = Toast("error", "Ungültiger Dateityp",
                   <<"Bitte laden Sie nur PDF, DOC, DOCX, TXT, JPG oder PNG Dateien hoch.">>)
               /\ UNCHANGED selectedFile
          ELSE IF file.size >= maxSize
          THEN /\ toast' = Toast("error", "Datei zu groß",
                   <<"Bitte laden Sie Dateien kleiner als 10MB hoch.">>)
               /\ UNCHANGED selectedFile
          ELSE /\ selectedFile' = <<file>>
               /\ toast' = Toast("info", "Datei ausgewählt",
                   <<file.name, " wurde zum Hochladen ausgewählt.">>)

\* handleFileChange's effect on selectedFile and the toasts.
handleFileChange(files) ==
  /\ IF files = <<>>
     THEN /\ toast' = NoToast
          /\ UNCHANGED selectedFile
     ELSE LET file == files[1] IN
          IF file.type \notin allowedTypes
          THEN /\ toast' = Toast("error", "Ungültiger Dateityp",
                   <<"Bitte laden Sie nur PDF, DOC, DOCX, TXT, JPG oder PNG Dateien hoch.">>)
               /\ UNCHANGED selectedFile
          ELSE IF file.size > maxSize
          THEN /\ toast' = Toast("error", "Datei zu groß",
                   <<"Bitte laden Sie Dateien kleiner als 10MB hoch.">>)
               /\ UNCHANGED selectedFile
          ELSE /\ selectedFile' = <<file>>
               /\ toast' = Toast("info", "Datei ausgewählt",
                   <<file.name, " wurde zum Hochladen ausgewählt.">>)

\* The file input's onChange; the input is disabled while isSubmitting.
FileChange(files) ==
  /\ FormRendered
  /\ ~isSubmitting
  /\ handleFileChange(files)
  /\ UNCHANGED <<props, mount, isSubmitting, form, inv, navPending, page, errorCase>>

\* Variant: the removal is announced whether or not a file is selected.
handleRemoveFile_alwaysToast ==
  /\ toast' = Toast("info", "Datei entfernt",
                    IF selectedFile # <<>>
                    THEN <<selectedFile[1].name, " wurde entfernt.">>
                    ELSE <<" wurde entfernt.">>)
  /\ selectedFile' = <<>>

\* handleRemoveFile's effect on selectedFile and the toasts.
handleRemoveFile ==
  /\ IF selectedFile # <<>>
     THEN toast' = Toast("info", "Datei entfernt",
                         <<selectedFile[1].name, " wurde entfernt.">>)
     ELSE toast' = NoToast
  /\ selectedFile' = <<>>

\* The "Entfernen" button: rendered when a file is selected, disabled while
\* isSubmitting.
RemoveFile ==
  /\ FormRendered
  /\ selectedFile # <<>>
  /\ ~isSubmitting
  /\ handleRemoveFile
  /\ UNCHANGED <<props, mount, isSubmitting, form, inv, navPending, page, errorCase>>

(***************************************************************************)
(* Submission: form.handleSubmit(onSubmit) and onSubmit                    *)
(***************************************************************************)
\* JSON.stringify(missingFields)
MissingFieldsJson == <<"[">> \o missingFields \o <<"]">>

\* Variant: the token part is appended even when no token was supplied.
BuildFormData_alwaysToken(data, file) ==
  [k \in 1..Len(FieldOrder) |-> [name |-> FieldOrder[k], value |-> data[FieldOrder[k]]]]
  \o <<[name |-> "token", value |-> <<token>>]>>
  \o (IF Len(missingFields) > 0
      THEN <<[name |-> "missingFields", value |-> MissingFieldsJson]>> ELSE <<>>)
  \o (IF file # <<>> THEN <<[name |-> "document", value |-> file[1]]>> ELSE <<>>)

\* The FormData onSubmit builds from the validated values and its closure.
BuildFormData(data, file) ==
  [k \in 1..Len(FieldOrder) |-> [name |-> FieldOrder[k], value |-> data[FieldOrder[k]]]]
  \o (IF token # "" THEN <<[name |-> "token", value |-> <<token>>]>> ELSE <<>>)
  \o (IF Len(missingFields) > 0
      THEN <<[name |-> "missingFields", value |-> MissingFieldsJson]>> ELSE <<>>)
  \o (IF file # <<>> THEN <<[name |-> "document", value |-> file[1]]>> ELSE <<>>)

\* Variant: a call that has ended is submitted again.
Ended_retries(r) == [NoInv EXCEPT !.pc = "validating", !.valid = TRUE, !.data = Filled]

\* A call that has ended: only a deadline timer still armed is left of it.
Ended(r) == IF r.timer THEN [NoInv EXCEPT !.pc = "stale", !.timer = TRUE] ELSE NoInv

\* The submit event: handleSubmit hands the field values to the resolver, which
\* parses them at once and answers asynchronously (with the errors and, when
\* there are any, no values).  onSubmit's closure is the one of the render the
\* event was dispatched in (only a call that will reach onSubmit keeps it).
handleSubmit ==
  /\ page = "form"
  /\ \E i \in Slots :
       /\ inv[i].pc = "none"
       /\ \A j \in Slots : j < i => inv[j].pc # "none"
       /\ inv' = [inv EXCEPT ![i] =
                    [NoInv EXCEPT !.pc = "validating",
                                  !.valid = (formSchema(form) = {}),
                                  !.data = IF formSchema(form) = {} THEN form
                                           ELSE defaultValues,
                                  !.file = IF formSchema(form) = {} THEN selectedFile
                                           ELSE <<>>,
                                  !.tokenInvalid = (isTokenValid = "false")]]
  /\ toast' = NoToast
  /\ UNCHANGED <<props, mount, isSubmitting, selectedFile, form, navPending, page,
                 errorCase>>

\* The submit button (or Enter in a field): not while the button is disabled.
Submit ==
  /\ FormRendered
  /\ ~isSubmitDisabled
  /\ handleSubmit

\* onSubmit from its entry to the await of fetch; i is the call.
\* Variant: without the token check.
onSubmit_noTokenCheck(i) ==
  /\ isSubmitting' = TRUE
  /\ toast' = Toast("loading", "Ihre Informationen werden verarbeitet...", <<>>)
  /\ inv' = [inv EXCEPT ![i] =
               [NoInv EXCEPT !.pc = "fetching",
                             !.formData = BuildFormData(inv[i].data, inv[i].file),
                             !.timer = TRUE]]

\* onSubmit, with the token check of its first lines.
onSubmit(i) ==
  IF token # "" /\ inv[i].tokenInvalid
  THEN /\ toast' = Toast("error", "Ungültiger Link",
                         <<"Dieser Formular-Link ist abgelaufen oder ungültig.">>)
       /\ inv' = [inv EXCEPT ![i] = NoInv]
       /\ UNCHANGED isSubmitting
  ELSE /\ isSubmitting' = TRUE
       /\ toast' = Toast("loading", "Ihre Informationen werden verarbeitet...", <<>>)
       /\ inv' = [inv EXCEPT ![i] =
                    [NoInv EXCEPT !.pc = "fetching",
                                  !.formData = BuildFormData(inv[i].data, inv[i].file),
                                  !.timer = TRUE]]

\* The resolver has answered: onSubmit runs when there are no errors;
\* otherwise the errors are shown inline and nothing else happens.
ValidationDone(i) ==
  /\ page = "form"
  /\ inv[i].pc = "validating"
  /\ IF inv[i].valid
     THEN onSubmit(i)
     ELSE /\ inv' = [inv EXCEPT ![i] = NoInv]
          /\ toast' = NoToast
          /\ UNCHANGED isSubmitting
  /\ UNCHANGED <<props, mount, selectedFile, form, navPending, page, errorCase>>

\* Variant: no finally block.
CatchFinally_noFinally(i, error) ==
  /\ toast' = Toast("error", "Übermittlung fehlgeschlagen", CatchMessage(error))
  /\ UNCHANGED isSubmitting

\* The catch and finally blocks.
CatchFinally(i, error) ==
  /\ toast' = Toast("error", "Übermittlung fehlgeschlagen", CatchMessage(error))
  /\ isSubmitting' = FALSE

\* Variant: the deadline timer is left armed when the response arrives.
FetchResolve_keepsTimer(i, status, jsonBody) ==
  /\ page = "form"
  /\ inv[i].pc = "fetching"
  /\ jsonBody => ResponseOk(status)
  /\ inv' = [inv EXCEPT ![i] =
               [NoInv EXCEPT !.pc = IF ResponseOk(status) THEN "json" ELSE "text",
                             !.status = status, !.timer = TRUE,
                             !.jsonBody = jsonBody]]
  /\ toast' = NoToast
  /\ UNCHANGED <<props, mount, isSubmitting, selectedFile, form, navPending, page,
                 errorCase>>

\* fetch resolves with the response's status line: clearTimeout(timeoutId).
FetchResolve(i, status, jsonBody) ==
  /\ page = "form"
  /\ inv[i].pc = "fetching"
  /\ jsonBody => ResponseOk(status)
  /\ inv' = [inv EXCEPT ![i] =
               [NoInv EXCEPT !.pc = IF ResponseOk(status) THEN "json" ELSE "text",
                             !.status = status, !.timer = FALSE,
                             !.jsonBody = jsonBody]]
  /\ toast' = NoToast
  /\ UNCHANGED <<props, mount, isSubmitting, selectedFile, form, navPending, page,
                 errorCase>>

\* fetch rejects: the request did not reach the endpoint.  The deadline timer
\* is not cleared on this path.
FetchReject(i, error) ==
  /\ page = "form"
  /\ inv[i].pc = "fetching"
  /\ CatchFinally(i, error)
  /\ inv' = [inv EXCEPT ![i] = Ended(@)]
  /\ UNCHANGED <<props, mount, selectedFile, form, navPending, page, errorCase>>

\* Variant: one abort controller is shared, so a timer that fires aborts
\* whichever fetch is pending.
TimerFire_sharedController(i) ==
  /\ page = "form"
  /\ inv[i].timer
  /\ IF \E j \in Slots : inv[j].pc = "fetching"
     THEN /\ CatchFinally(i, AbortError)
          /\ inv' = [j \in Slots |->
                       IF j = i \/ inv[j].pc = "fetching" THEN NoInv ELSE inv[j]]
     ELSE /\ toast' = NoToast
          /\ UNCHANGED isSubmitting
          /\ inv' = [inv EXCEPT ![i] = NoInv]
  /\ UNCHANGED <<props, mount, selectedFile, form, navPending, page, errorCase>>

\* setTimeout(() => controller.abort(), 30000) fires: a fetch still pending
\* rejects with an AbortError; a request that has ended is not affected.
TimerFire(i) ==
  /\ page = "form"
  /\ inv[i].timer
  /\ IF inv[i].pc = "fetching"
     THEN CatchFinally(i, AbortError)
     ELSE /\ toast' = NoToast
          /\ UNCHANGED isSubmitting
  /\ inv' = [inv EXCEPT ![i] = NoInv]
  /\ UNCHANGED <<props, mount, selectedFile, form, navPending, page, errorCase>>

\* Variant: a server error resets the form as a success does.
ReadText_resets(i, body) ==
  /\ page = "form"
  /\ inv[i].pc = "text"
  /\ CatchFinally(i, Err("Error", ExtractErrorMessage(inv[i].status, body)))
  /\ form' = [defaultValues EXCEPT !.email = clientEmail]
  /\ selectedFile' = <<>>
  /\ inv' = [inv EXCEPT ![i] = Ended(@)]
  /\ UNCHANGED <<props, mount, navPending, page, errorCase>>

\* response.text() of a non-ok response resolves.
ReadText(i, body) ==
  /\ page = "form"
  /\ inv[i].pc = "text"
  /\ CatchFinally(i, Err("Error", ExtractErrorMessage(inv[i].status, body)))
  /\ inv' = [inv EXCEPT ![i] = Ended(@)]
  /\ UNCHANGED <<props, mount, selectedFile, form, navPending, page, errorCase>>

\* response.text() rejects: errorMessage keeps its initial, generic value.
ReadTextFail(i) ==
  /\ page = "form"
  /\ inv[i].pc = "text"
  /\ CatchFinally(i, Err("Error", GenericMsg(inv[i].status)))
  /\ inv' = [inv EXCEPT ![i] = Ended(@)]
  /\ UNCHANGED <<props, mount, selectedFile, form, navPending, page, errorCase>>

\* Variant: form.reset() to the default values.
ResetForm_toDefaults ==
  /\ form' = defaultValues
  /\ selectedFile' = <<>>

\* The success path's form.reset({..., email: clientEmail || ''}) and
\* setSelectedFile(null).
ResetForm ==
  /\ form' = [defaultValues EXCEPT !.email = clientEmail]
  /\ selectedFile' = <<>>

\* Variant: isSubmitting is left true on the success path.
ReadJson_holdsGate(i) ==
  /\ page = "form"
  /\ inv[i].pc = "json"
  /\ inv[i].jsonBody
  /\ toast' = Toast("success", "Erfolgreich übermittelt!",
                    <<"Vielen Dank! Ihre Informationen wurden gespeichert.">>)
  /\ ResetForm
  /\ navPending' = TRUE
  /\ UNCHANGED isSubmitting
  /\ inv' = [inv EXCEPT ![i] = Ended(@)]
  /\ UNCHANGED <<props, mount, page, errorCase>>

\* response.json() of an ok response resolves: the success path, then finally.
ReadJson(i) ==
  /\ page = "form"
  /\ inv[i].pc = "json"
  /\ inv[i].jsonBody
  /\ toast' = Toast("success", "Erfolgreich übermittelt!",
                    <<"Vielen Dank! Ihre Informationen wurden gespeichert.">>)
  /\ ResetForm
  /\ navPending' = TRUE
  /\ isSubmitting' = FALSE
  /\ inv' = [inv EXCEPT ![i] = Ended(@)]
  /\ UNCHANGED <<props, mount, page, errorCase>>

\* Variant: a 2xx response counts as a success whatever its body.
ReadJsonFail_succeeds(i) ==
  /\ page = "form"
  /\ inv[i].pc = "json"
  /\ ~inv[i].jsonBody
  /\ toast' = Toast("success", "Erfolgreich übermittelt!",
                    <<"Vielen Dank! Ihre Informationen wurden gespeichert.">>)
  /\ ResetForm
  /\ navPending' = TRUE
  /\ isSubmitting' = FALSE
  /\ inv' = [inv EXCEPT ![i] = Ended(@)]
  /\ UNCHANGED <<props, mount, page, errorCase>>

\* response.json() rejects: the body is no JSON document.
ReadJsonFail(i) ==
  /\ page = "form"
  /\ inv[i].pc = "json"
  /\ ~inv[i].jsonBody
  /\ CatchFinally(i, JsonSyntaxError)
  /\ inv' = [inv EXCEPT ![i] = Ended(@)]
  /\ UNCHANGED <<props, mount, selectedFile, form, navPending, page, errorCase>>

\* Variant: the page navigates whether or not a redirect is pending.
Navigate_unscheduled ==
  /\ page = "form"
  /\ page' = "success"
  /\ isClient' = FALSE
  /\ effectsPending' = FALSE
  /\ isEmailPreFilled' = FALSE
  /\ isTokenValid' = "null"
  /\ isSubmitting' = FALSE
  /\ selectedFile' = <<>>
  /\ form' = defaultValues
  /\ inv' = [i \in Slots |-> NoInv]
  /\ toast' = NoToast
  /\ navPending' = FALSE
  /\ UNCHANGED <<props, errorCase>>

\* setTimeout(() => { window.location.href = '/success' }, 2000) fires: the
\* document is unloaded, and the component, its timers and its requests with it.
Navigate ==
  /\ page = "form"
  /\ navPending
  /\ page' = "success"
  /\ isClient' = FALSE
  /\ effectsPending' = FALSE
  /\ isEmailPreFilled' = FALSE
  /\ isTokenValid' = "null"
  /\ isSubmitting' = FALSE
  /\ selectedFile' = <<>>
  /\ form' = defaultValues
  /\ inv' = [i \in Slots |-> NoInv]
  /\ toast' = NoToast
  /\ navPending' = FALSE
  /\ UNCHANGED <<props, errorCase>>

\* What the endpoint answers with in Spec (ErrorSpec ranges over all bodies).
StatusesSeen == {200, 401}
BodiesSeen ==
  {Body(FALSE, NoCore, FALSE),
   Body(FALSE, JsonCore(JObj(JStr(<<"token expired">>), Absent), FALSE), FALSE)}

Next ==
  \/ MountEffect
  \/ ClientEffects
  \/ \E values \in FormInputs : UpdateFields(values)
  \/ \E files \in FileEvents : FileChange(files)
  \/ RemoveFile
  \/ Submit
  \/ \E i \in Slots : ValidationDone(i)
  \/ \E i \in Slots : \E status \in StatusesSeen : \E jsonBody \in BOOLEAN :
       FetchResolve(i, status, jsonBody)
  \/ \E i \in Slots : \E error \in NetworkErrors : FetchReject(i, error)
  \/ \E i \in Slots : TimerFire(i)
  \/ \E i \in Slots : \E body \in BodiesSeen : ReadText(i, body)
  \/ \E i \in Slots : ReadTextFail(i)
  \/ \E i \in Slots : ReadJson(i)
  \/ \E i \in Slots : ReadJsonFail(i)
  \/ Navigate

Spec == Init /\ [][Next]_vars

(***************************************************************************)
(* ErrorSpec: the path of one non-ok response whose text is read, from     *)
(* response.text() to the error toast, over every status and body.         *)
(***************************************************************************)
ErrorStatuses == {status \in Statuses : ~ResponseOk(status)}

ErrorInit ==
  /\ InitWith(PropsGiven, InitialTokenValid)
  /\ \E status \in ErrorStatuses : \E body \in ErrorBodies : \E readable \in BOOLEAN :
       response = [status |-> status, body |-> body, readable |-> readable]
  /\ surfaced = NoSurfaced

\* The non-ok branch throws (the generic message when response.text()
\* rejects), the catch block shows the error toast.
ShowServerError ==
  /\ ~surfaced.shown
  /\ surfaced' =
       IF response.readable
       THEN [shown |-> TRUE,
             thrown |-> ExtractErrorMessage(response.status, response.body),
             description |-> ServerErrorDescription(response.status, response.body)]
       ELSE [shown |-> TRUE,
             thrown |-> GenericMsg(response.status),
             description |-> CatchMessage(Err("Error", GenericMsg(response.status)))]
  /\ UNCHANGED <<props, mount, isSubmitting, selectedFile, form, inv, toast,
                 navPending, page, response, errors, caught>>

ErrorNext == ShowServerError

ErrorSpec == ErrorInit /\ [][ErrorNext]_vars

(***************************************************************************)
(* Claims about the error message of a non-ok response (ErrorSpec)         *)
(***************************************************************************)
\* The response's body is a valid JSON object whose detail member is a string.
DetailIsString ==
  /\ response.readable
  /\ ~response.body.lead
  /\ ~response.body.trail
  /\ response.body.core.kind = "json"
  /\ response.body.core.doc.t = "obj"
  /\ response.body.core.doc.detail.k = "str"

DetailString == response.body.core.doc.detail.s

\* C8, as stated: when the body of a non-2xx response is valid JSON with a
\* string detail d, the description shown to the user is d exactly.
C8_AsStated ==
  (surfaced.shown /\ DetailIsString) => surfaced.description = DetailString

\* C8, amended: when the body of a non-2xx response is valid JSON with a
\* string detail d that is not empty and contains neither "Failed to fetch"
\* nor "Invalid or expired token", the description shown to the user is d
\* exactly.
C8_DetailShown ==
  (/\ surfaced.shown
   /\ DetailIsString
   /\ DetailString # <<>>
   /\ ~Includes(DetailString, "Failed to fetch")
   /\ ~Includes(DetailString, "Invalid or expired token"))
  => surfaced.description = DetailString

\* A response with a detail and a message whose detail was shown.
C8_Witness ==
  /\ surfaced.shown
  /\ DetailIsString
  /\ DetailString = <<"token expired">>
  /\ response.body.core.doc.message.k = "str"
  /\ surfaced.description = <<"token expired">>

\* The body was read and, one leading and one trailing quote removed, parses
\* to an object.
Decodes ==
  /\ response.readable
  /\ response.body.core.kind = "json"
  /\ response.body.core.doc.t = "obj"

\* The body cannot be read or is empty.
NoText == ~response.readable \/ BodyText(response.body) = <<>>

RecordFields == {"firstName", "lastName", "email", "phone", "address"}

\* The five field rules, as the specification states them.
SatisfiesRules(r) ==
  /\ Len(r.firstName) >= 2
  /\ Len(r.lastName) >= 2
  /\ IsEmail(r.email)
  /\ Len(r.phone) >= 10
  /\ Len(r.address) >= 5

\* The parts of a POST's body with a given name.
Parts(fd, name) == {k \in 1..Len(fd) : fd[k].name = name}

\* The body carries each record field once and the fields satisfy the rules.
CarriesValidRecord(fd) ==
  /\ \A f \in RecordFields : Cardinality(Parts(fd, f)) = 1
  /\ SatisfiesRules([f \in RecordFields |-> fd[CHOOSE k \in Parts(fd, f) : TRUE].value])

\* Call i starts its POST in this step.
StartsPost(i) == inv[i].pc # "fetching" /\ inv'[i].pc = "fetching"

\* C1: a submit attempt on a record that breaks a field rule is blocked (the
\* resolver reports errors, onSubmit is not entered, no POST is started and
\* isSubmitting is not changed), and every POST started carries a record that
\* satisfies the five rules.
C1_ValidationBlocks ==
  /\ [][\A i \in Slots :
          (inv[i].pc = "none" /\ inv'[i].pc = "validating" /\ ~SatisfiesRules(form))
          => (~inv'[i].valid /\ isSubmitting' = isSubmitting
              /\ \A j \in Slots : ~StartsPost(j))]_vars
  /\ [][\A i \in Slots :
          (inv[i].pc = "validating" /\ ~inv[i].valid /\ inv'[i].pc # "validating"
           /\ page' = "form")
          => (inv'[i] = NoInv /\ isSubmitting' = isSubmitting
              /\ toast' = NoToast /\ \A j \in Slots : ~StartsPost(j))]_vars
  /\ [][\A i \in Slots : StartsPost(i) => CarriesValidRecord(inv'[i].formData)]_vars

\* A record that breaks one rule was submitted and awaits the resolver's
\* answer; nothing is posted.
C1_Witness ==
  /\ ~isSubmitting
  /\ form = [Filled EXCEPT !.phone = ShortPhone]
  /\ \E i \in Slots : inv[i].pc = "validating" /\ ~inv[i].valid
  /\ \A i \in Slots : inv[i].pc \in {"none", "validating"}

\* C2: at most one submission is in flight at any moment.
C2_AtMostOneInFlight == Cardinality({i \in Slots : InFlight(i)}) <= 1

\* C4: a deadline timer is armed for as long as a fetch is pending, and when
\* it fires on a pending fetch the request is cancelled, the error shown is the
\* timeout message and isSubmitting is false.
C4_Timeout ==
  /\ [](\A i \in Slots : inv[i].pc = "fetching" => inv[i].timer)
  /\ [][\A i \in Slots :
          (inv[i].pc = "fetching" /\ inv'[i].pc = "none" /\ page' = "form")
          => (/\ toast'.kind = "error"
              /\ toast'.description = TimeoutMsg
              /\ toast'.description \notin {ConnFailMsg, LinkExpiredMsg, DefaultErrorMsg}
              /\ \A status \in Statuses : toast'.description # GenericMsg(status)
              /\ ~isSubmitting')]_vars

\* The timeout message is shown and the form is idle, its fetch gone.
C4_Witness ==
  /\ toast.kind = "error"
  /\ toast.description = TimeoutMsg
  /\ ~isSubmitting
  /\ \A i \in Slots : inv[i].pc = "none"

\* The attachment constraints, as the specification states them.
FileOk(file) ==
  /\ file.type \in {"application/pdf", "application/msword",
                     "application/vnd.openxmlformats-officedocument.wordprocessingml.document",
                     "text/plain", "image/jpeg", "image/png"}
  /\ file.size <= 10485760

\* C5: the selected file, if any, has an allowed type and at most 10 MiB, and
\* so has every document part of a POST.
C5_AttachmentOk ==
  /\ selectedFile # <<>> => FileOk(selectedFile[1])
  /\ \A i \in Slots : \A k \in Parts(inv[i].formData, "document") :
       FileOk(inv[i].formData[k].value)

\* A POST carries a document of exactly 10 MiB.
C5_Witness ==
  \E i \in Slots :
    /\ inv[i].pc = "fetching"
    /\ \E k \in Parts(inv[i].formData, "document") :
         inv[i].formData[k].value.size = 10485760

\* C6: a step that rejects a file (wrong type or too big) leaves the selected
\* file, the field values and isSubmitting as they were.
C6_RejectKeepsState ==
  [][(toast'.kind = "error" /\ toast'.title \in {"Ungültiger Dateityp", "Datei zu groß"})
     => (selectedFile' = selectedFile /\ form' = form /\ isSubmitting' = isSubmitting
         /\ inv' = inv)]_vars

\* A file was rejected for its size while a valid file stays selected.
C6_Witness ==
  /\ toast.kind = "error"
  /\ toast.title = "Datei zu groß"
  /\ selectedFile # <<>>
  /\ FileOk(selectedFile[1])
  /\ form = Filled

\* Call i, which awaits the body of a 2xx response, completes in this step.
CompletesOk(i) ==
  inv[i].pc = "json" /\ ResponseOk(inv[i].status) /\ inv'[i].pc # "json" /\ page' = "form"

\* The record after a successful submission.
AfterSuccess ==
  /\ form'.firstName = <<>> /\ form'.lastName = <<>>
  /\ form'.phone = <<>> /\ form'.address = <<>>
  /\ form'.email = clientEmail
  /\ selectedFile' = <<>>

\* C7, as stated: when a submission that got a 2xx response completes, the
\* fields are empty but for the pre-filled e-mail, and no file is selected.
C7_AsStated ==
  [][\A i \in Slots : CompletesOk(i) => AfterSuccess]_vars

\* C7, amended: when a submission that got a 2xx response whose body is a JSON
\* document completes, the fields are empty but for the pre-filled e-mail, and
\* no file is selected.
C7_ResetOnSuccess ==
  [][\A i \in Slots : (CompletesOk(i) /\ inv[i].jsonBody) => AfterSuccess]_vars

\* After a success with a pre-filled e-mail: that e-mail alone is left.
C7_Witness ==
  /\ toast.kind = "success"
  /\ clientEmail # <<>>
  /\ form = [defaultValues EXCEPT !.email = clientEmail]
  /\ selectedFile = <<>>
  /\ navPending

(***************************************************************************)
(* FairSpec: what the code's scheduling guarantees.  The resolver answers  *)
(* and an armed deadline timer fires.  Nothing makes the endpoint answer   *)
(* or a response's body arrive.                                            *)
(***************************************************************************)
FairSpec ==
  /\ Init
  /\ [][Next]_vars
  /\ \A i \in Slots : WF_vars(ValidationDone(i)) /\ WF_vars(TimerFire(i))

\* Call i awaits the body of a response.
AwaitsBody(i) == inv[i].pc \in {"text", "json"}

HandlerInit ==
  /\ \E p \in PropsGiven :
       /\ clientEmail = p.clientEmail
       /\ token = p.token
       /\ missingFields = p.missingFields
  /\ isClient = FALSE
  /\ effectsPending = FALSE
  /\ isEmailPreFilled = FALSE
  /\ isTokenValid \in TokenValidType
  /\ isSubmitting = FALSE
  /\ selectedFile \in {files \in FileEvents :
                          files = <<>> \/ (files[1].type \in allowedTypes
                                           /\ files[1].size <= maxSize)}
  /\ form \in FormInputs \cup {defaultValues}
  /\ inv = [i \in Slots |-> NoInv]
  /\ toast = NoToast
  /\ navPending = FALSE
  /\ page = "form"
  /\ response = NoResponse
  /\ surfaced = NoSurfaced
  /\ errors = NoErrors
  /\ caught = NoCaught

HandlerNext ==
  \/ handleSubmit
  \/ \E i \in Slots : ValidationDone(i)

HandlerSpec == HandlerInit /\ [][HandlerNext]_vars

\* C10: with a token supplied and isTokenValid false, no POST is ever pending
\* and isSubmitting is never true; the call of a valid record ends in onSubmit's
\* first statement, which shows the rejection and leaves the field values and
\* the selected file as they were.
C10_TokenAbort ==
  /\ []((token # "" /\ isTokenValid = "false")
         => (~isSubmitting /\ \A i \in Slots : ~InFlight(i)))
  /\ [][\A i \in Slots :
          (/\ token # "" /\ isTokenValid = "false"
           /\ inv[i].pc = "validating" /\ inv[i].valid /\ inv'[i].pc # "validating")
          => (/\ inv'[i] = NoInv
              /\ form' = form
              /\ selectedFile' = selectedFile
              /\ ~isSubmitting'
              /\ toast'.kind = "error"
              /\ toast'.title = "Ungültiger Link")]_vars

\* The rejection is shown for a valid record with a file; nothing has changed.
C10_Witness ==
  /\ token # ""
  /\ isTokenValid = "false"
  /\ toast.kind = "error"
  /\ toast.title = "Ungültiger Link"
  /\ form = Filled
  /\ selectedFile # <<>>
  /\ ~isSubmitting
  /\ \A i \in Slots : inv[i] = NoInv

(***************************************************************************)
(* Claims about the token, the POSTs and the navigation (Spec)             *)
(***************************************************************************)
\* C11: isTokenValid is never false: on the form page it is null until the
\* token effect has run with isClient true, and true from then on; so no call
\* takes the token abort, the invalid-link view is never rendered, and the
\* submit button is disabled exactly when isSubmitting is true.
C11_TokenNeverInvalid ==
  /\ isTokenValid # "false"
  /\ page = "form" => (isTokenValid = "true" <=> (isClient /\ ~effectsPending))
  /\ page = "form" => (isTokenValid = "null" <=> (~isClient \/ effectsPending))
  /\ \A i \in Slots : ~inv[i].tokenInvalid
  /\ toast.title # "Ungültiger Link"
  /\ ~(isClient /\ token # "" /\ isTokenValid = "false")
  /\ isSubmitDisabled <=> isSubmitting

\* With a token supplied the token effect has run and a POST is pending.
C11_Witness ==
  /\ token # ""
  /\ isTokenValid = "true"
  /\ \E i \in Slots : inv[i].pc = "fetching"

\* C12: a call begins only with a submit event on the enabled form, a POST is
\* started only by a call whose validation passed and every such call starts
\* one, the POST of a pending call is not replaced, and the step in which a
\* call ends (in a failure or otherwise) starts no POST and leaves no call
\* behind: POSTs, calls and submit events correspond one to one.
C12_OnePostPerAttempt ==
  [][\A i \in Slots :
       /\ (inv[i].pc # "validating" /\ inv'[i].pc = "validating")
            => (inv[i].pc = "none" /\ FormRendered /\ ~isSubmitDisabled
                /\ \A j \in Slots \ {i} : inv'[j] = inv[j])
       /\ StartsPost(i) => (inv[i].pc = "validating" /\ inv[i].valid)
       /\ (inv[i].pc = "validating" /\ inv[i].valid /\ inv'[i].pc # "validating"
            /\ page' = "form")
            => StartsPost(i)
       /\ (inv[i].pc = "fetching" /\ inv'[i].pc = "fetching")
            => inv'[i].formData = inv[i].formData
       /\ (InFlight(i) /\ ~InFlight(i)')
            => (inv'[i].pc \in {"none", "stale"} /\ \A j \in Slots : ~StartsPost(j))]_vars

\* A submission has failed with the server's message; no call is left and the
\* record is still in the form.
C12_Witness ==
  /\ toast.kind = "error"
  /\ toast.description = <<"token expired">>
  /\ ~isSubmitting
  /\ form = Filled
  /\ \A i \in Slots : inv[i].pc = "none"

\* The one part of a POST's body with a given name.
ThePart(fd, name) == fd[CHOOSE k \in Parts(fd, name) : TRUE]

\* C13: a submit event on a record that satisfies the rules hands that record
\* and the selected file to the call, and the body of the POST the call starts
\* has the five fields with those values once each, a token part exactly when
\* the token is not empty, a missingFields part (the list, JSON-encoded)
\* exactly when the list is not empty, a document part exactly when a file was
\* selected at the submit event, and no other part.
C13_Payload ==
  [][\A i \in Slots :
       /\ (inv[i].pc = "none" /\ inv'[i].pc = "validating" /\ SatisfiesRules(form))
            => (inv'[i].data = form /\ inv'[i].file = selectedFile)
       /\ StartsPost(i) =>
            LET fd == inv'[i].formData IN
            /\ \A f \in RecordFields :
                 Cardinality(Parts(fd, f)) = 1 /\ ThePart(fd, f).value = inv[i].data[f]
            /\ Cardinality(Parts(fd, "token")) = (IF token # "" THEN 1 ELSE 0)
            /\ token # "" => ThePart(fd, "token").value = <<token>>
            /\ Cardinality(Parts(fd, "missingFields")) =
                 (IF Len(missingFields) > 0 THEN 1 ELSE 0)
            /\ Len(missingFields) > 0 =>
                 ThePart(fd, "missingFields").value = <<"[">> \o missingFields \o <<"]">>
            /\ Cardinality(Parts(fd, "document")) = (IF inv[i].file # <<>> THEN 1 ELSE 0)
            /\ inv[i].file # <<>> => ThePart(fd, "document").value = inv[i].file[1]
            /\ \A k \in 1..Len(fd) :
                 fd[k].name \in RecordFields \cup {"token", "missingFields", "document"}]_vars

\* A POST with all eight parts is pending.
C13_Witness ==
  \E i \in Slots :
    /\ inv[i].pc = "fetching"
    /\ Len(inv[i].formData) = 8
    /\ Parts(inv[i].formData, "token") # {}
    /\ Parts(inv[i].formData, "missingFields") # {}
    /\ Parts(inv[i].formData, "document") # {}

\* A POST with the five fields only is pending.
C13_WitnessBare ==
  \E i \in Slots : inv[i].pc = "fetching" /\ Len(inv[i].formData) = 5

\* C14: the page navigates only while a redirect is pending; a redirect is
\* scheduled only in the step in which a call reads the JSON body of a 2xx
\* response and shows the success toast, and the page does not navigate in
\* that step; a step that shows an error or ends a call whose validation
\* failed neither schedules a redirect nor navigates.
C14_NavigationOnlyAfterSuccess ==
  [][/\ (page = "form" /\ page' = "success") => navPending
     /\ (~navPending /\ navPending')
          => (/\ toast'.kind = "success"
              /\ page' = "form"
              /\ \E i \in Slots : CompletesOk(i) /\ inv[i].jsonBody)
     /\ toast'.kind = "error" => (navPending' = navPending /\ page' = page)
     /\ \A i \in Slots :
          (inv[i].pc = "validating" /\ ~inv[i].valid /\ inv'[i].pc = "none")
          => (page' = "form" => navPending' = navPending)]_vars

\* The confirmation page has been reached.
C14_Witness == page = "success"

\* A submission has failed; no redirect is pending.
C14_WitnessFailure ==
  /\ page = "form"
  /\ toast.kind = "error"
  /\ toast.title = "Übermittlung fehlgeschlagen"
  /\ ~navPending

FileInputs ==
  FileEvents \cup
  {<<[name |-> "cv.pdf", size |-> 1, type |-> "application/pdf"]>>,
   <<[name |-> "notes.txt", size |-> maxSize - 1, type |-> "text/plain"]>>,
   <<[name |-> "photo.jpg", size |-> maxSize + 1, type |-> "image/jpeg"]>>,
   <<[name |-> "setup.exe", size |-> maxSize + 1, type |-> "application/x-msdownload"]>>,
   <<[name |-> "unknown", size |-> 0, type |-> ""]>>}

\* handleRemoveFile, called.
RemoveCall ==
  /\ FormRendered
  /\ ~isSubmitting
  /\ handleRemoveFile
  /\ UNCHANGED <<props, mount, isSubmitting, form, inv, navPending, page, errorCase>>

FileNext ==
  \/ MountEffect
  \/ ClientEffects
  \/ \E values \in FormInputs : UpdateFields(values)
  \/ \E files \in FileInputs : FileChange(files)
  \/ RemoveCall

FileSpec == Init /\ [][FileNext]_vars

\* C16: a call of handleRemoveFile leaves no file selected; a step that
\* announces a removal had a file to remove and changes nothing else; and with
\* no file selected the call changes nothing and shows no notification.
C16_RemoveIsIdempotent ==
  [][/\ RemoveCall => selectedFile' = <<>>
     /\ (toast'.kind = "info" /\ toast'.title = "Datei entfernt")
        => /\ selectedFile # <<>>
           /\ selectedFile' = <<>>
           /\ toast'.description = <<selectedFile[1].name, " wurde entfernt.">>
           /\ form' = form /\ isSubmitting' = isSubmitting /\ inv' = inv
     /\ (RemoveCall /\ selectedFile = <<>>)
        => /\ toast' = NoToast
           /\ selectedFile' = selectedFile
           /\ form' = form /\ isSubmitting' = isSubmitting /\ inv' = inv]_vars

\* A file has just been removed from a filled form: the next call of
\* handleRemoveFile finds no file.
C16_Witness ==
  /\ toast.kind = "info"
  /\ toast.title = "Datei entfernt"
  /\ selectedFile = <<>>
  /\ form = Filled

\* C17: a file handed to handleFileChange is accepted exactly when its type is
\* allowed and its size is at most 10 MiB; an accepted file becomes the
\* selected file, whatever was selected before, a rejected one leaves the
\* selection alone; either way the field values and isSubmitting are unchanged.
C17_AcceptsWithinLimits ==
  [][\A files \in FileInputs :
       (files # <<>> /\ FileChange(files))
       => /\ IF FileOk(files[1])
             THEN /\ selectedFile' = files
                  /\ toast'.kind = "info" /\ toast'.title = "Datei ausgewählt"
             ELSE /\ selectedFile' = selectedFile
                  /\ toast'.kind = "error"
          /\ form' = form
          /\ isSubmitting' = isSubmitting
          /\ inv' = inv]_vars

\* A file of exactly 10 MiB has just been accepted on a filled form.
C17_Witness ==
  /\ toast.kind = "info"
  /\ toast.title = "Datei ausgewählt"
  /\ selectedFile # <<>>
  /\ selectedFile[1].size = 10485760
  /\ form = Filled

\* A file of 10 MiB and one byte has just been rejected while another file
\* stays selected.
C17_WitnessTooBig ==
  /\ toast.kind = "error"
  /\ toast.title = "Datei zu groß"
  /\ selectedFile # <<>>
  /\ selectedFile[1].name = "cv.pdf"

(***************************************************************************)
(* SchemaSpec: the resolver applied to the records of the hydrated form,   *)
(* with and without a token, a missing-fields list and a selected file.    *)
(***************************************************************************)
\* Field values on both sides of each rule.
FieldValues ==
  [firstName |-> {<<>>, <<"A">>, <<"A", "l">>},
   lastName |-> {<<"B">>, <<"B", "o">>},
   email |-> {<<>>, BadEmail, GoodEmail, PreFilledEmail},
   phone |-> {ShortPhone, GoodPhone},
   address |-> {<<"H", "o", "f", " ">>, <<"H", "o", "f", " ", "1">>}]

SchemaRecords ==
  [firstName : FieldValues.firstName, lastName : FieldValues.lastName,
   email : FieldValues.email, phone : FieldValues.phone,
   address : FieldValues.address]

SchemaInit ==
  /\ \E p \in PropsGiven :
       /\ clientEmail = p.clientEmail
       /\ token = p.token
       /\ missingFields = p.missingFields
  /\ isClient = TRUE
  /\ effectsPending = FALSE
  /\ isEmailPreFilled = (clientEmail # <<>>)
  /\ isTokenValid = "true"
  /\ isSubmitting = FALSE
  /\ selectedFile \in {files \in FileEvents :
                          files = <<>> \/ (files[1].type \in allowedTypes
                                           /\ files[1].size <= maxSize)}
  /\ form \in {r \in SchemaRecords : isEmailPreFilled => r.email = clientEmail}
  /\ inv = [i \in Slots |-> NoInv]
  /\ toast = NoToast
  /\ navPending = FALSE
  /\ page = "form"
  /\ response = NoResponse
  /\ surfaced = NoSurfaced
  /\ errors = NoErrors
  /\ caught = NoCaught

\* zodResolver(formSchema) on the field values.
resolver ==
  /\ ~errors.resolved
  /\ errors' = [resolved |-> TRUE, fields |-> formSchema(form)]
  /\ UNCHANGED <<props, mount, isSubmitting, selectedFile, form, inv, toast,
                 navPending, page, response, surfaced, caught>>

SchemaNext == resolver

SchemaSpec == SchemaInit /\ [][SchemaNext]_vars

\* C18: the resolver reports a field exactly when it reports that field for
\* every other record with the same value in it, whatever the other fields,
\* the token, the missing-fields list and the selected file are.
C18_PerFieldIndependent ==
  errors.resolved
  => \A f \in RecordFields : \A r \in SchemaRecords :
       r[f] = form[f] => ((f \in formSchema(r)) <=> (f \in errors.fields))

\* Only the phone number is reported, with a token, a missing-fields list and
\* a file present.
C18_Witness ==
  /\ errors.resolved
  /\ errors.fields = {"phone"}
  /\ token # ""
  /\ missingFields # <<>>
  /\ selectedFile # <<>>

(***************************************************************************)
(* Claims about the pre-filled e-mail and failed submissions (Spec)        *)
(***************************************************************************)
\* C19: with a pre-filled e-mail, once the pre-fill effect has run the e-mail
\* field holds it, and the record of every call that passed validation and the
\* e-mail part of every POST is the pre-filled e-mail.
C19_PreFilledEmailKept ==
  clientEmail # <<>>
  => /\ isEmailPreFilled => form.email = clientEmail
     /\ \A i \in Slots :
          /\ (inv[i].pc = "validating" /\ inv[i].valid) => inv[i].data.email = clientEmail
          /\ inv[i].pc = "fetching"
             => /\ Cardinality(Parts(inv[i].formData, "email")) = 1
                /\ \A k \in Parts(inv[i].formData, "email") :
                     inv[i].formData[k].value = clientEmail

\* A POST is pending from the pre-filled form after the user typed into the
\* other fields.
C19_Witness ==
  /\ clientEmail # <<>>
  /\ isEmailPreFilled
  /\ \E i \in Slots :
       /\ inv[i].pc = "fetching"
       /\ \E k \in Parts(inv[i].formData, "firstName") :
            inv[i].formData[k].value = Filled.firstName

\* The pre-filled form after a successful submission has reset it.
C19_WitnessReset ==
  /\ clientEmail # <<>>
  /\ isEmailPreFilled
  /\ toast.kind = "success"
  /\ form.firstName = <<>>
  /\ form.email = clientEmail

C20_WitnessServerError ==
  /\ toast.kind = "error"
  /\ toast.title = "Übermittlung fehlgeschlagen"
  /\ toast.description \notin {TimeoutMsg, ConnFailMsg, DefaultErrorMsg}
  /\ form = Filled
  /\ selectedFile # <<>>

\* A submission of a filled form with a file has just failed on the network.
C20_WitnessNetwork ==
  /\ toast.kind = "error"
  /\ toast.title = "Übermittlung fehlgeschlagen"
  /\ toast.description = ConnFailMsg
  /\ form = Filled
  /\ selectedFile # <<>>

(***************************************************************************)
(* Claims about the response body, the deadline and the messages (Spec)    *)
(***************************************************************************)
\* C21: when the body of a 2xx response turns out not to be JSON, the call
\* ends as a failure: the field values and the selected file stay, no redirect
\* is scheduled, the failure toast is shown and isSubmitting is false.
C21_NonJsonIsFailure ==
  [][\A i \in Slots :
       (/\ inv[i].pc = "json" /\ ResponseOk(inv[i].status) /\ ~inv[i].jsonBody
        /\ inv'[i].pc # "json" /\ page' = "form")
       => /\ form' = form
          /\ selectedFile' = selectedFile
          /\ navPending' = navPending
          /\ toast'.kind = "error"
          /\ toast'.title = "Übermittlung fehlgeschlagen"
          /\ ~isSubmitting']_vars

\* A 2xx response without a JSON body has just ended the submission of a
\* filled form with a file: both are kept and no redirect is pending.
C21_Witness ==
  /\ toast.kind = "error"
  /\ toast.title = "Übermittlung fehlgeschlagen"
  /\ toast.description = JsonSyntaxError.message
  /\ form = Filled
  /\ selectedFile # <<>>
  /\ ~navPending
  /\ ~isSubmitting

\* C22: a call that has received its response has no deadline timer armed
\* (the timer is cleared in the step that receives the response, and nothing
\* bounds the reading of the body), and the step in which such a call ends
\* does not show the timeout message.
C22_DeadlineEndsAtResponse ==
  /\ [](\A i \in Slots : inv[i].pc \in {"text", "json"} => ~inv[i].timer)
  /\ [][\A i \in Slots :
          /\ (inv[i].pc = "fetching" /\ inv'[i].pc \in {"text", "json"})
             => (inv[i].timer /\ ~inv'[i].timer)
          /\ (inv[i].pc \in {"text", "json"} /\ inv'[i].pc \notin {"text", "json"})
             => toast'.description # TimeoutMsg]_vars

\* A non-ok response has arrived and its body is awaited with no timer armed,
\* while isSubmitting is still true.
C22_Witness ==
  /\ isSubmitting
  /\ \E i \in Slots :
       /\ inv[i].pc = "text"
       /\ ~ResponseOk(inv[i].status)
       /\ ~inv[i].timer
  /\ \A i \in Slots : ~inv[i].timer

\* C23: when the timer left armed by a call that has ended fires, no other
\* call, no toast and not isSubmitting is affected; and a step that shows the
\* timeout message ends exactly the pending fetch whose own timer was armed.
C23_OwnTimerOnly ==
  [][/\ \A i \in Slots :
          (inv[i].pc = "stale" /\ inv'[i].pc # "stale" /\ page' = "form")
          => /\ \A j \in Slots : j # i => inv'[j] = inv[j]
             /\ isSubmitting' = isSubmitting
             /\ toast' = NoToast
             /\ form' = form /\ selectedFile' = selectedFile
     /\ (toast'.kind = "error" /\ toast'.description = TimeoutMsg)
        => \E i \in Slots :
             /\ inv[i].pc = "fetching" /\ inv[i].timer
             /\ inv'[i] = NoInv
             /\ \A j \in Slots : j # i => inv'[j] = inv[j]]_vars

\* The timer of an earlier call whose fetch was rejected is still armed while
\* the POST of a later call is pending.
C23_Witness ==
  \E i, j \in Slots :
    /\ inv[i].pc = "stale" /\ inv[i].timer
    /\ inv[j].pc = "fetching" /\ inv[j].timer
    /\ isSubmitting

\* C24: the step of a successful call that shows the success toast and
\* schedules the redirect (the only step after which a redirect is pending)
\* ends with isSubmitting false and the page still shown, and the page
\* navigates only in a later step, with the redirect pending.
C24_IdleBeforeNavigation ==
  [][/\ (navPending' /\ (~navPending \/ toast'.kind = "success"))
        => /\ ~isSubmitting'
           /\ page' = "form"
           /\ page = "form"
           /\ \E i \in Slots : CompletesOk(i)
     /\ (page = "form" /\ page' = "success")
        => (navPending /\ \A i \in Slots : ~CompletesOk(i))]_vars

\* The redirect is pending and the form is shown with the submit button
\* enabled.
C24_Witness ==
  /\ navPending
  /\ page = "form"
  /\ toast.kind = "success"
  /\ ~isSubmitting
  /\ ~isSubmitDisabled
  /\ FormRendered

(***************************************************************************)
(* CatchSpec: onSubmit's catch and finally blocks on each value the try    *)
(* block throws: the AbortError of the deadline, fetch's rejections, the   *)
(* body reader's error and the Error of the non-ok branch for each status  *)
(* and body.                                                               *)
(***************************************************************************)
\* Bodies of non-ok responses, with messages that hold the phrases the catch
\* block looks for.
CatchBodies ==
  ErrorBodies \cup
  {Body(FALSE, JsonCore(JObj(JStr(<<"Failed to fetch">>), Absent), FALSE), FALSE),
   Body(FALSE, JsonCore(JObj(JStr(<<"Invalid or expired token", ": ", "Failed to fetch">>),
                             Absent), FALSE), FALSE),
   Body(FALSE, TextCore(<<"upstream: ", "Failed to fetch">>), FALSE)}

ThrownErrors ==
  {AbortError, JsonSyntaxError} \cup NetworkErrors
  \cup {Err("Error", ExtractErrorMessage(status, body)) :
          status \in ErrorStatuses, body \in CatchBodies}
  \cup {Err("Error", GenericMsg(status)) : status \in ErrorStatuses}

\* The try block of a call on the filled form, with or without a file, has
\* thrown.
CatchInit ==
  /\ \E p \in PropsGiven :
       /\ clientEmail = p.clientEmail
       /\ token = p.token
       /\ missingFields = p.missingFields
  /\ isClient = TRUE
  /\ effectsPending = FALSE
  /\ isEmailPreFilled = (clientEmail # <<>>)
  /\ isTokenValid = "true"
  /\ isSubmitting = TRUE
  /\ selectedFile \in {files \in FileEvents :
                          files = <<>> \/ (files[1].type \in allowedTypes
                                           /\ files[1].size <= maxSize)}
  /\ form = IF clientEmail # <<>> THEN [Filled EXCEPT !.email = clientEmail] ELSE Filled
  /\ inv = [i \in Slots |-> NoInv]
  /\ toast = Toast("loading", "Ihre Informationen werden verarbeitet...", <<>>)
  /\ navPending = FALSE
  /\ page = "form"
  /\ response = NoResponse
  /\ surfaced = NoSurfaced
  /\ errors = NoErrors
  /\ \E error \in ThrownErrors :
       caught = [thrown |-> TRUE, handled |-> FALSE, error |-> error]

\* catch (error) { ... toast.error(...) } finally { setIsSubmitting(false) }
catchBlock ==
  /\ caught.thrown
  /\ ~caught.handled
  /\ CatchFinally(1, caught.error)
  /\ caught' = [caught EXCEPT !.handled = TRUE]
  /\ UNCHANGED <<props, mount, selectedFile, form, inv, navPending, page, response,
                 surfaced, errors>>

CatchNext == catchBlock

CatchSpec == CatchInit /\ [][CatchNext]_vars

\* The message the claim's order gives for an error.
MessageInOrder(error) ==
  IF error.name = "AbortError" THEN TimeoutMsg
  ELSE IF \E k \in 1..Len(error.message) : error.message[k] = "Failed to fetch"
       THEN ConnFailMsg
  ELSE IF \E k \in 1..Len(error.message) : error.message[k] = "Invalid or expired token"
       THEN LinkExpiredMsg
  ELSE error.message

\* C25: the catch block shows one failure toast whose description is the
\* timeout message for an AbortError, else the connection message when the
\* error's text contains 'Failed to fetch', else the link-expired message when
\* it contains 'Invalid or expired token', else the error's own text.
C25_MessageOrder ==
  caught.handled
  => /\ toast.kind = "error"
     /\ toast.title = "Übermittlung fehlgeschlagen"
     /\ toast.description = MessageInOrder(caught.error)
     /\ ~isSubmitting

\* A server message that holds both phrases has been replaced by the
\* connection message.
C25_Witness ==
  /\ caught.handled
  /\ caught.error.name = "Error"
  /\ Includes(caught.error.message, "Invalid or expired token")
  /\ Includes(caught.error.message, "Failed to fetch")
  /\ toast.description = ConnFailMsg

\* A server message that holds the token phrase has been replaced by the
\* link-expired message.
C25_WitnessToken ==
  /\ caught.handled
  /\ caught.error.message = <<"Invalid or expired token">>
  /\ toast.description = LinkExpiredMsg

\* A server message without either phrase is shown as it is.
C25_WitnessVerbatim ==
  /\ caught.handled
  /\ caught.error.message = <<"token expired">>
  /\ toast.description = <<"token expired">>

(***************************************************************************)
(* Claim about a file event without a file (FileSpec)                      *)
(***************************************************************************)
\* C26: a change event of the file input that carries no file leaves the
\* selected file, the field values, isSubmitting and the calls as they were
\* and shows no toast.
C26_EmptyEventChangesNothing ==
  [][FileChange(<<>>)
     => /\ selectedFile' = selectedFile
        /\ toast' = NoToast
        /\ form' = form
        /\ isSubmitting' = isSubmitting
        /\ inv' = inv
        /\ navPending' = navPending]_vars

\* A file is selected on a filled form and no toast is up: the state an empty
\* change event leaves when a file was selected before it.
C26_Witness ==
  /\ selectedFile # <<>>
  /\ toast = NoToast
  /\ form = Filled
  /\ FormRendered

====
